---- MODULE Spec2Model ----
(***************************************************************************)
(* Model of gwlearn's BaseClassifier (src/gwlearn/base.py): the fit of one *)
(* local model per focal neighbourhood (fit, _batch_fit, _fit_local) and   *)
(* the blending of local predictions (predict_proba, _predict_proba,       *)
(* predict).                                                               *)
(*                                                                         *)
(* Points lie on a line at integer coordinates.  Lengths are measured in   *)
(* units of the epsilon 1e-6 that predict_proba adds to an adaptive        *)
(* bandwidth, so that one coordinate step is EpsInv units and the epsilon  *)
(* is 1.  A kernel weight is an exact fraction <<num, den>>.               *)
(***************************************************************************)
EXTENDS Integers, Sequences, FiniteSets

VARIABLES
    params,          \* constructor arguments kept on self
    X, y, geometry,  \* the training set handed to fit, by position
    pc,              \* where the caller is: new/dispatch/running/collect/fitted/failed/predicted
    weights,         \* the adjacency of the graph built by fit
    batch_i,         \* loop variable i of the batch loop (0 when unbatched)
    tasks,           \* the delayed _fit_local calls of the running batch
    outputs,         \* per task of the running batch: its output, or pending
    training_output, \* the records collected so far
    files,           \* the model files present in the keep_models directory
    warned,          \* number of warnings emitted by fit
    error,           \* exception raised by fit or by the prediction call
    n_fitted,        \* number of estimators fitted so far
    local_models,    \* self.local_models: a Series of handles indexed by name
    has_geometry,    \* whether self._geometry is set
    focal_proba_,    \* self.focal_proba_ (rows by name), set when fit returns
    query,           \* the prediction call: its api, query points and neighbour hits
    proba,           \* the rows returned by predict_proba
    label,           \* the labels returned by predict
    n_lookups        \* spatial queries and model lookups made by the prediction call

vars == <<params, X, y, geometry, pc, weights, batch_i, tasks, outputs,
          training_output, files, warned, error, n_fitted, local_models,
          has_geometry, focal_proba_, query, proba, label, n_lookups>>

----------------------------------------------------------------------------
(* Bounds and program constants *)

NumPoints == 3

\* 1 / 1e-6: the number of epsilons in one coordinate step
EpsInv == 1000000

Pos == 1..NumPoints
MaxCoord == NumPoints
Coords == 0..MaxCoord

----------------------------------------------------------------------------
(* Generic helpers *)

Min(a, b) == IF a < b THEN a ELSE b

Abs(a) == IF a < 0 THEN -a ELSE a

Range(s) == {s[k] : k \in DOMAIN s}

RECURSIVE SeqSum(_)
SeqSum(s) == IF s = <<>> THEN 0 ELSE Head(s) + SeqSum(Tail(s))

RECURSIVE SortedSeq(_)
\* the members of a finite set of integers in ascending order
SortedSeq(S) ==
    IF S = {} THEN <<>>
    ELSE LET m == CHOOSE a \in S : \A b \in S : a <= b
         IN <<m>> \o SortedSeq(S \ {m})

RECURSIVE Gcd(_, _)
Gcd(a, b) == IF b = 0 THEN a ELSE Gcd(b, a % b)

RECURSIVE GcdAll(_)
GcdAll(s) == IF s = <<>> THEN 0 ELSE Gcd(Head(s), GcdAll(Tail(s)))

----------------------------------------------------------------------------
(* Kernels: (distance, bandwidth) -> weight, as a fraction <<num, den>> *)

\* the value of 0/0
NaNWeight == <<0, 0>>

\* u = clip(distances / bandwidth, 0, 1); 1 - u
_triangular(distances, bandwidth) ==
    IF bandwidth = 0
    THEN IF distances = 0 THEN NaNWeight ELSE <<0, 1>>
    ELSE <<bandwidth - Min(distances, bandwidth), bandwidth>>

\* _boxcar with the distance bandwidth itself counted as inside
_boxcarInclusive(distances, bandwidth) ==
    <<IF distances <= bandwidth THEN 1 ELSE 0, 1>>

\* (distances < bandwidth).astype(int)
_boxcar(distances, bandwidth) ==
    <<IF distances < bandwidth THEN 1 ELSE 0, 1>>

_kernel_functions(kernel, distances, bandwidth) ==
    IF kernel = "triangular" THEN _triangular(distances, bandwidth)
    ELSE _boxcar(distances, bandwidth)

Kernels == {"triangular", "boxcar"}

----------------------------------------------------------------------------
(* The training set *)

\* position of the point that carries identifier id
PosOf(geom, id) == CHOOSE p \in DOMAIN geom : geom[p].id = id

\* point-to-point distance, in epsilons
Distance(c1, c2) == Abs(c1 - c2) * EpsInv

\* series.unique() is a subset of {0, 1} / {True, False}
_is_binary(series) == Range(series) \subseteq {0, 1}

\* np.unique(y): the sorted distinct labels
GlobalClasses(series) == SortedSeq(Range(series))

----------------------------------------------------------------------------
(* Graph.build_kernel: the adjacency, one entry per (focal, neighbor) pair,  *)
(* focal groups in the order of geometry, neighbours by position.            *)

RECURSIVE Flatten(_)
Flatten(ss) == IF ss = <<>> THEN <<>> ELSE Head(ss) \o Flatten(Tail(ss))

\* entries of one focal group; a focal without neighbours is an isolate and
\* keeps a self-loop of weight 0
GroupEntries(geom, p, nbrs, w) ==
    IF nbrs = {}
    THEN << [focal |-> geom[p].id, neighbor |-> geom[p].id, weight |-> <<0, 1>>] >>
    ELSE LET order == SortedSeq(nbrs)
         IN [k \in 1..Len(order) |->
                [focal |-> geom[p].id, neighbor |-> geom[order[k]].id,
                 weight |-> w[order[k]]]]

\* fixed distance: kernel of the pairwise distances with one scalar
\* bandwidth, zero weights dropped from the sparse adjacency
FixedGraph(geom, kernel, bandwidth) ==
    LET w(p) == [q \in DOMAIN geom |->
                    _kernel_functions(kernel,
                                      Distance(geom[p].coord, geom[q].coord),
                                      bandwidth * EpsInv)]
        nbrs(p) == {q \in DOMAIN geom \ {p} : w(p)[q][1] # 0}
    IN Flatten([p \in DOMAIN geom |-> GroupEntries(geom, p, nbrs(p), w(p))])

\* the k nearest other points of p; ties between equidistant points are
\* broken by the spatial index
KnnChoices(geom, p, k) ==
    {S \in SUBSET (DOMAIN geom \ {p}) :
        /\ Cardinality(S) = k
        /\ \A s \in S : \A t \in (DOMAIN geom \ {p}) \ S :
              Distance(geom[p].coord, geom[s].coord)
                <= Distance(geom[p].coord, geom[t].coord)}

RECURSIVE KnnGraphs(_, _, _)
\* every way the neighbours of the first n points can come out
KnnGraphs(geom, k, n) ==
    IF n = 0 THEN {<<>>}
    ELSE {Append(nn, S) : nn \in KnnGraphs(geom, k, n - 1),
                          S \in KnnChoices(geom, n, k)}

\* adaptive KNN: identity weights (the distances) post-processed by the
\* kernel with the bandwidth of each group, its maximum distance
AdaptiveGraph(geom, kernel, nn) ==
    LET d(p) == [q \in DOMAIN geom |-> Distance(geom[p].coord, geom[q].coord)]
        bandwidth(p) == CHOOSE m \in {d(p)[q] : q \in nn[p]} :
                            \A q \in nn[p] : d(p)[q] <= m
        w(p) == [q \in DOMAIN geom |->
                    _kernel_functions(kernel, d(p)[q], bandwidth(p))]
    IN Flatten([p \in DOMAIN geom |-> GroupEntries(geom, p, nn[p], w(p))])

----------------------------------------------------------------------------
(* Probability rows, local estimators and handles *)

\* pd.Series(np.nan, index=classes)
NaNRow(classes) ==
    [nan |-> TRUE, cols |-> classes, num |-> [k \in DOMAIN classes |-> 0], den |-> 0]

\* a fitted local estimator: the neighbourhood it was trained on
LocalModel(name, data) == [of |-> name, train |-> data]

\* local_model.classes_
Classes_(model) == SortedSeq({model.train[k].y : k \in DOMAIN model.train})

\* local_model.predict_proba(x): the estimator is pluggable; this one votes
\* with the sample weights of the training rows nearest to x in feature
\* space and answers in halves
EstimatorPredictProba(model, x) ==
    LET rows == model.train
        gap(k) == Abs(rows[k].x - x)
        near == {k \in DOMAIN rows : \A j \in DOMAIN rows : gap(k) <= gap(j)}
        vote(c) == SeqSum([k \in DOMAIN rows |->
                        IF k \in near /\ rows[k].y = c THEN rows[k].w[1] ELSE 0])
        cls == Classes_(model)
        top == CHOOSE m \in {vote(cls[k]) : k \in DOMAIN cls} :
                  \A k \in DOMAIN cls : vote(cls[k]) <= m
        winners == {k \in DOMAIN cls : vote(cls[k]) = top}
    IN [nan |-> FALSE, cols |-> cls,
        num |-> [k \in DOMAIN cls |->
                    IF k \notin winners THEN 0
                    ELSE IF Cardinality(winners) = 1 THEN 2 ELSE 1],
        den |-> 2]

\* ModelPath with a file name that does not depend on the focal name
ModelPathShared(name) == [dir |-> "keep_models", file |-> 0]

\* f"{self.keep_models.joinpath(f'{name}.joblib')}"
ModelPath(name) == [dir |-> "keep_models", file |-> name]

----------------------------------------------------------------------------
(* _batch_fit: the rows of every focal group and the delayed local fits *)

\* data.loc[index.get_level_values(1)] with the _weight column, then
\* groupby(index.get_level_values(0)): the rows of the group called name
GroupData(Xs, ys, geom, index, name) ==
    LET mine == SelectSeq(index, LAMBDA e : e.focal = name)
    IN [k \in DOMAIN mine |->
            LET q == PosOf(geom, mine[k].neighbor)
            IN [id |-> mine[k].neighbor, x |-> Xs[q], y |-> ys[q],
                w |-> mine[k].weight]]

\* groupby iterates the groups by sorted key
GroupNames(index) == SortedSeq({index[k].focal : k \in DOMAIN index})

\* data["_y"].groupby(...).nunique() == 1
Invariant(Xs, ys, geom, index) ==
    {name \in Range(GroupNames(index)) :
        Cardinality({r.y : r \in Range(GroupData(Xs, ys, geom, index, name))}) = 1}

\* zip(grouper, X_focals, strict=False): one delayed _fit_local per pair
Tasks(Xs, ys, geom, index, X_focals) ==
    LET names == GroupNames(index)
    IN [k \in 1..Min(Len(names), Len(X_focals)) |->
            [name |-> names[k],
             data |-> GroupData(Xs, ys, geom, index, names[k]),
             focal_x |-> X_focals[k]]]

----------------------------------------------------------------------------
(* _fit_local *)

RECURSIVE DescCounts(_, _)
DescCounts(data, labels) ==
    IF labels = {} THEN <<>>
    ELSE LET count(c) == Cardinality({k \in DOMAIN data : data[k].y = c})
             top == CHOOSE a \in labels : \A b \in labels : count(a) >= count(b)
         IN <<count(top)>> \o DescCounts(data, labels \ {top})

\* data["_y"].value_counts(): the counts, largest first
ValueCounts(data) == DescCounts(data, {data[k].y : k \in DOMAIN data})

\* Skip with the boundary value counted as below the threshold
SkipInclusive(vc, min_proportion) ==
    IF Len(vc) > 1
    THEN vc[2] * min_proportion[2] <= min_proportion[1] * vc[1]
    ELSE Len(vc) = 1

\* Skip without the minority-proportion guard
SkipInvariantOnly(vc, min_proportion) == Len(vc) = 1

\* skip = n_labels == 1; if n_labels > 1:
\*     skip = (vc.iloc[1] / vc.iloc[0]) < self.min_proportion
Skip(vc, min_proportion) ==
    IF Len(vc) > 1
    THEN vc[2] * min_proportion[2] < min_proportion[1] * vc[1]
    ELSE Len(vc) = 1

\* dump(local_model, f) and load(f)
Dump(model) == [pickle |-> model]
Load(content) == content.pickle

\* what is appended to the output for the model
Handle(keep_models, name, model, skip) ==
    IF skip
    THEN IF keep_models # "False" THEN [kind |-> "None"] ELSE [kind |-> "absent"]
    ELSE IF keep_models = "True" THEN [kind |-> "model", model |-> model]
    ELSE IF keep_models = "Path" THEN [kind |-> "path", path |-> ModelPath(name)]
    ELSE [kind |-> "absent"]

\* the output list of one local fit; fitted, focal_x and data record what
\* the task did and was given
_fit_local(prm, classes, task) ==
    LET vc == ValueCounts(task.data)
        skip == Skip(vc, prm.min_proportion)
        local_model == LocalModel(task.name, task.data)
    IN [name |-> task.name,
        n_labels |-> Len(vc),
        focal_proba |-> IF skip THEN NaNRow(classes)
                        ELSE EstimatorPredictProba(local_model, task.focal_x),
        model |-> Handle(prm.keep_models, task.name, local_model, skip),
        fitted |-> ~skip,
        focal_x |-> task.focal_x,
        data |-> task.data]

\* the files after the local fit of task: open(p, "wb"); dump(local_model, f)
FilesAfter(prm, fs, task) ==
    LET p == ModelPath(task.name)
    IN IF prm.keep_models = "Path"
          /\ ~Skip(ValueCounts(task.data), prm.min_proportion)
       THEN [f \in DOMAIN fs \cup {p} |->
                IF f = p THEN Dump(LocalModel(task.name, task.data)) ELSE fs[f]]
       ELSE fs

----------------------------------------------------------------------------
(* fit *)

\* weights._adjacency.loc[batch_indices, :]: a label missing from the focal
\* level is a KeyError
Loc(adjacency, labels) ==
    [err |-> \E k \in DOMAIN labels :
                 \A e \in DOMAIN adjacency : adjacency[e].focal # labels[k],
     rows |-> Flatten([k \in DOMAIN labels |->
                 SelectSeq(adjacency, LAMBDA e : e.focal = labels[k])])]

\* BatchIndices with every batch starting one index early, on the last index
\* of the batch before it
BatchIndicesOverlapping(i, batch_size, num_groups) ==
    LET from == IF i > 0 THEN i - 1 ELSE 0
    IN [k \in 1..(Min(i + batch_size, num_groups) - from) |-> from + k - 1]

\* indices[i : i + self.batch_size]
BatchIndices(i, batch_size, num_groups) ==
    [k \in 1..(Min(i + batch_size, num_groups) - i) |-> i + k - 1]

\* X.values[batch_indices]
Take(values, indices) == [k \in DOMAIN indices |-> values[indices[k] + 1]]

Pending == [kind |-> "pending"]

Batched == params.batch_size # 0

\* index and X_focals handed to _batch_fit by the current iteration
BatchIndex ==
    IF Batched
    THEN Loc(weights, BatchIndices(batch_i, params.batch_size, Len(geometry))).rows
    ELSE weights

BatchFocals ==
    IF Batched
    THEN Take(X, BatchIndices(batch_i, params.batch_size, Len(geometry)))
    ELSE X

IdAssignments ==
    { [p \in Pos |-> p - 1],              \* the default 0..n-1
      [p \in Pos |-> NumPoints - p],      \* 0..n-1 in descending order
      [p \in Pos |-> p] }                 \* identifiers that start at 1

\* points one step apart along the line from 0 on, the last one either one
\* or two steps after the point before it
Layouts ==
    {[p \in Pos |-> IF p = NumPoints THEN p - 1 + gap ELSE p - 1] : gap \in {0, 1}}

\* 0/1 targets (the first label is 0), and one target that is not binary
Targets ==
    {t \in [Pos -> {0, 1}] : t[1] = 0} \cup {[p \in Pos |-> IF p = 1 THEN 2 ELSE 0]}

\* min_proportion as a fraction: the default 0.2, 1.0 and 2.0
MinProportions == {<<1, 5>>, <<1, 1>>, <<2, 1>>}

\* a distance of 2 or 3 steps when fixed, 1 or 2 neighbours when adaptive;
\* batch_size 0 stands for None
Params ==
    {prm \in [fixed : BOOLEAN,
              bandwidth : {1, 2, 3},
              kernel : Kernels,
              strict : {"True", "False", "None"},
              keep_models : {"False", "True", "Path"},
              batch_size : {0, 1, 2},
              min_proportion : MinProportions] :
        IF prm.fixed THEN prm.bandwidth > 1 ELSE prm.bandwidth < 3}

Init ==
    /\ params \in Params
    /\ geometry \in {[p \in Pos |-> [id |-> i[p], coord |-> c[p]]] :
                        i \in IdAssignments, c \in Layouts}
    /\ X = [p \in Pos |-> p]
    /\ y \in Targets
    /\ pc = "new"
    /\ weights = <<>>
    /\ batch_i = 0
    /\ tasks = <<>>
    /\ outputs = <<>>
    /\ training_output = <<>>
    /\ files = <<>>
    /\ warned = 0
    /\ error = "none"
    /\ n_fitted = 0
    /\ local_models = <<>>
    /\ has_geometry = FALSE
    /\ focal_proba_ = <<>>
    /\ query = <<>>
    /\ proba = <<>>
    /\ label = <<>>
    /\ n_lookups = 0

predVars == <<query, proba, label, n_lookups>>
attrVars == <<local_models, has_geometry, focal_proba_>>
dataVars == <<params, X, y, geometry>>

\* fit, lines 207-213: the target is not binary
FitRejectTarget ==
    /\ pc = "new"
    /\ ~_is_binary(y)
    /\ error' = "ValueError: Only binary dependent variable is supported."
    /\ pc' = "failed"
    /\ UNCHANGED <<dataVars, weights, batch_i, tasks, outputs, training_output,
                   files, warned, n_fitted, attrVars, predVars>>

\* fit, lines 212-235: the graph is built
FitBuildGraph ==
    /\ pc = "new"
    /\ _is_binary(y)
    /\ IF params.fixed
       THEN weights' = FixedGraph(geometry, params.kernel, params.bandwidth)
       ELSE \E nn \in KnnGraphs(geometry, params.bandwidth, Len(geometry)) :
               weights' = AdaptiveGraph(geometry, params.kernel, nn)
    /\ batch_i' = 0
    /\ pc' = "dispatch"
    /\ UNCHANGED <<dataVars, tasks, outputs, training_output, files, warned,
                   error, n_fitted, attrVars, predVars>>

\* fit, line 250: a batch index that is no focal identifier
BatchKeyError ==
    /\ pc = "dispatch"
    /\ Batched
    /\ Loc(weights, BatchIndices(batch_i, params.batch_size, Len(geometry))).err
    /\ error' = "KeyError"
    /\ pc' = "failed"
    /\ UNCHANGED <<dataVars, weights, batch_i, tasks, outputs, training_output,
                   files, warned, n_fitted, attrVars, predVars>>

BatchLocated ==
    Batched =>
      ~Loc(weights, BatchIndices(batch_i, params.batch_size, Len(geometry))).err

\* _batch_fit, lines 363-368: strict and an invariant group in this call
BatchStrictRaise ==
    /\ pc = "dispatch"
    /\ BatchLocated
    /\ Invariant(X, y, geometry, BatchIndex) # {}
    /\ params.strict = "True"
    /\ error' = "ValueError: y is invariant."
    /\ pc' = "failed"
    /\ UNCHANGED <<dataVars, weights, batch_i, tasks, outputs, training_output,
                   files, warned, n_fitted, attrVars, predVars>>

\* _batch_fit, lines 357-384: the local fits of this call are handed to the pool
BatchDispatch ==
    /\ pc = "dispatch"
    /\ BatchLocated
    /\ ~(Invariant(X, y, geometry, BatchIndex) # {} /\ params.strict = "True")
    /\ warned' = IF Invariant(X, y, geometry, BatchIndex) # {} /\ params.strict = "None"
                 THEN warned + 1 ELSE warned
    /\ tasks' = Tasks(X, y, geometry, BatchIndex, BatchFocals)
    /\ outputs' = [k \in DOMAIN tasks' |-> Pending]
    /\ pc' = "running"
    /\ UNCHANGED <<dataVars, weights, batch_i, training_output, files, error,
                   n_fitted, attrVars, predVars>>

\* one worker runs one delayed _fit_local
FitLocal(k) ==
    /\ pc = "running"
    /\ outputs[k] = Pending
    /\ outputs' = [outputs EXCEPT ![k] = _fit_local(params, GlobalClasses(y), tasks[k])]
    /\ files' = FilesAfter(params, files, tasks[k])
    /\ n_fitted' = IF outputs'[k].fitted THEN n_fitted + 1 ELSE n_fitted
    /\ UNCHANGED <<dataVars, pc, weights, batch_i, tasks, training_output, warned,
                   error, attrVars, predVars>>

\* the pool runs the pending tasks of the batch in any order
RunTask == \E k \in DOMAIN outputs : FitLocal(k)

\* Parallel returns the outputs in task order; the batch loop goes on
JoinBatch ==
    /\ pc = "running"
    /\ \A k \in DOMAIN outputs : outputs[k] # Pending
    /\ training_output' = training_output \o outputs
    /\ tasks' = <<>>
    /\ outputs' = <<>>
    /\ IF Batched /\ batch_i + params.batch_size < Len(geometry)
       THEN /\ batch_i' = batch_i + params.batch_size
            /\ pc' = "dispatch"
       ELSE /\ batch_i' = batch_i
            /\ pc' = "collect"
    /\ UNCHANGED <<dataVars, weights, files, warned, error, n_fitted, attrVars,
                   predVars>>

\* pd.Series(models, index=self._names)
Series(values, names) == [k \in DOMAIN values |-> [name |-> names[k], value |-> values[k]]]

\* fit, lines 265-286: the outputs are unzipped into the fitted attributes
FitReturn ==
    /\ pc = "collect"
    /\ LET names == [k \in DOMAIN training_output |-> training_output[k].name]
       IN /\ IF params.keep_models # "False"
             THEN /\ local_models' =
                        Series([k \in DOMAIN training_output |-> training_output[k].model],
                               names)
                  /\ has_geometry' = TRUE
             ELSE UNCHANGED <<local_models, has_geometry>>
          /\ focal_proba_' =
                Series([k \in DOMAIN training_output |-> training_output[k].focal_proba],
                       names)
    /\ pc' = "fitted"
    /\ UNCHANGED <<dataVars, weights, batch_i, tasks, outputs, training_output,
                   files, warned, error, n_fitted, predVars>>

----------------------------------------------------------------------------
(* predict_proba, _predict_proba and predict *)

\* self.local_models[i]: the Series is indexed by the integer names, so an
\* integer key is looked up as a label
SeriesGet(series, i) ==
    IF \E k \in DOMAIN series : series[k].name = i
    THEN [err |-> "none",
          value |-> series[CHOOSE k \in DOMAIN series : series[k].name = i].value]
    ELSE [err |-> "KeyError", value |-> [kind |-> "None"]]

\* lines 606-609: the handle is resolved, a str by opening and loading it
Resolve(fs, handle) ==
    IF handle.kind = "path"
    THEN IF handle.path \in DOMAIN fs
         THEN [err |-> "none", model |-> [kind |-> "model", model |-> Load(fs[handle.path])]]
         ELSE [err |-> "FileNotFoundError", model |-> [kind |-> "None"]]
    ELSE [err |-> "none", model |-> handle]

\* lines 605-624: the row of one neighbour
LoadedRow(classes, res, x_) ==
    IF res.err # "none" THEN [err |-> res.err, row |-> NaNRow(classes)]
    ELSE IF res.model.kind = "model"
         THEN [err |-> "none", row |-> EstimatorPredictProba(res.model.model, x_)]
         ELSE [err |-> "none", row |-> NaNRow(classes)]

FetchedRow(fs, classes, got, x_) ==
    IF got.err # "none" THEN [err |-> got.err, row |-> NaNRow(classes)]
    ELSE LoadedRow(classes, Resolve(fs, got.value), x_)

NeighbourRow(series, fs, classes, i, x_) ==
    FetchedRow(fs, classes, SeriesGet(series, i), x_)

\* lines 627-635: np.average over the rows that are not missing, then
\* weighted / weighted.sum(); the result in lowest terms
Blend(classes, pred, distances_) ==
    LET keep == {k \in DOMAIN pred : ~pred[k].nan}
        wsum == SeqSum([k \in DOMAIN pred |->
                          IF k \in keep THEN distances_[k][1] ELSE 0])
        acc(c) == SeqSum([k \in DOMAIN pred |->
                          IF k \in keep THEN distances_[k][1] * pred[k].num[c] ELSE 0])
        total == SeqSum([c \in DOMAIN classes |-> acc(c)])
        d == GcdAll([c \in DOMAIN classes |-> acc(c)])
    IN IF keep = {} THEN [err |-> "none", row |-> NaNRow(classes)]
       ELSE IF wsum = 0 THEN [err |-> "ZeroDivisionError", row |-> NaNRow(classes)]
       ELSE [err |-> "none",
             row |-> [nan |-> FALSE, cols |-> classes,
                      num |-> [c \in DOMAIN classes |-> acc(c) \div d],
                      den |-> total \div d]]

\* a loop that stops at the first error: the result of one iteration (that made
\* n lookups) followed by the result of the iterations after it
Then(first, n, rest) ==
    IF first.err # "none" THEN [err |-> first.err, rows |-> <<>>, n |-> n]
    ELSE [err |-> rest.err,
          rows |-> IF rest.err = "none" THEN <<first.row>> \o rest.rows ELSE <<>>,
          n |-> n + rest.n]

RECURSIVE NeighbourRows(_, _, _, _, _)
\* the rows of the neighbours in models_, up to the first failing lookup
NeighbourRows(series, fs, classes, models_, x_) ==
    IF models_ = <<>> THEN [err |-> "none", rows |-> <<>>, n |-> 0]
    ELSE Then(NeighbourRow(series, fs, classes, Head(models_), x_), 1,
              NeighbourRows(series, fs, classes, Tail(models_), x_))

\* _predict_proba for one query row
Averaged(out, n) == [err |-> out.err, row |-> out.row, n |-> n]

Collected(classes, pred, distances_) ==
    IF pred.err # "none" THEN [err |-> pred.err, row |-> NaNRow(classes), n |-> pred.n]
    ELSE Averaged(Blend(classes, pred.rows, distances_), pred.n)

_predict_proba(series, fs, classes, x_, models_, distances_) ==
    Collected(classes, NeighbourRows(series, fs, classes, models_, x_), distances_)

\* np.split(local_ids, split_indices): one group per query point that has a
\* hit; no hit at all leaves one empty group
HitGroups(hits, w) ==
    LET having == SelectSeq([k \in DOMAIN hits |-> k], LAMBDA k : hits[k] # {})
    IN IF having = <<>> THEN << [models_ |-> <<>>, distances_ |-> <<>>] >>
       ELSE [g \in DOMAIN having |->
               LET order == SortedSeq(hits[having[g]])
               IN [models_ |-> [k \in DOMAIN order |-> order[k] - 1],
                   distances_ |-> [k \in DOMAIN order |-> w[having[g]][order[k]]]]]

ThenRow(one, rest) == Then(one, one.n, rest)

RECURSIVE PredictLoop(_, _, _, _, _, _)
\* lines 583-592: zip(data, local_model_ids, distances, strict=True)
PredictLoop(series, fs, classes, points, groups, k) ==
    IF k > Len(points) /\ k > Len(groups) THEN [err |-> "none", rows |-> <<>>, n |-> 0]
    ELSE IF k > Len(points) \/ k > Len(groups)
    THEN [err |-> "ValueError: zip() arguments have different lengths", rows |-> <<>>, n |-> 0]
    ELSE ThenRow(_predict_proba(series, fs, classes, points[k].x,
                                groups[k].models_, groups[k].distances_),
                 PredictLoop(series, fs, classes, points, groups, k + 1))

\* lines 549-558: the training points within bandwidth of each query point
\* (dwithin includes the distance bandwidth itself) and their kernel weights
FixedHits(geom, points, bandwidth) ==
    [k \in DOMAIN points |->
        {p \in DOMAIN geom :
            Distance(points[k].coord, geom[p].coord) <= bandwidth * EpsInv}]

FixedWeights(geom, points, kernel, bandwidth) ==
    [k \in DOMAIN points |-> [p \in DOMAIN geom |->
        _kernel_functions(kernel, Distance(points[k].coord, geom[p].coord),
                          bandwidth * EpsInv)]]

\* lines 560-564: tree.query(query_coords, k=self.bandwidth)
QueryKnnChoices(geom, coord, k) ==
    {S \in SUBSET (DOMAIN geom) :
        /\ Cardinality(S) = k
        /\ \A s \in S : \A t \in (DOMAIN geom) \ S :
              Distance(coord, geom[s].coord) <= Distance(coord, geom[t].coord)}

RECURSIVE QueryKnn(_, _, _, _)
\* every way the hits of the first n query points can come out
QueryKnn(geom, points, k, n) ==
    IF n = 0 THEN {<<>>}
    ELSE {Append(h, S) : h \in QueryKnn(geom, points, k, n - 1),
                         S \in QueryKnnChoices(geom, points[n].coord, k)}

\* lines 571-576: the bandwidth of each query group is its maximum distance
\* plus 1e-6
AdaptiveWeights(geom, points, kernel, hits) ==
    [k \in DOMAIN points |->
        LET d == [p \in DOMAIN geom |-> Distance(points[k].coord, geom[p].coord)]
            far == CHOOSE m \in {d[p] : p \in hits[k]} : \A p \in hits[k] : d[p] <= m
            kernel_bandwidth == far + 1
        IN [p \in DOMAIN geom |-> _kernel_functions(kernel, d[p], kernel_bandwidth)]]

\* proba.idxmax(axis=1): the first column holding the row maximum; a row
\* that is all missing has no maximum and yields a missing label
IdxMax(row) ==
    IF row.nan THEN [nan |-> TRUE]
    ELSE LET best == CHOOSE k \in DOMAIN row.num :
                        /\ \A j \in DOMAIN row.num : row.num[j] <= row.num[k]
                        /\ \A j \in DOMAIN row.num : j < k => row.num[j] < row.num[k]
         IN [nan |-> FALSE, value |-> row.cols[best]]

\* the feature value of a query row
QueryFeatures == {2}

\* a coordinate out of reach of every training point
Far == 2 * MaxCoord + 1

\* a coordinate past the last training point
Beyond == MaxCoord + 2

QueryPoints == [coord : Coords \cup {Beyond, Far}, x : QueryFeatures]

\* one query point, or a query point with a far one before or after it
QuerySets ==
    {<<q>> : q \in QueryPoints}
      \cup {<<[coord |-> 0, x |-> 2], [coord |-> Far, x |-> 2]>>,
            <<[coord |-> Far, x |-> 2], [coord |-> 0, x |-> 2]>>}

\* the kernel weights of the hits, by query point
QueryWeights(points, hits) ==
    IF params.fixed
    THEN FixedWeights(geometry, points, params.kernel, params.bandwidth)
    ELSE AdaptiveWeights(geometry, points, params.kernel, hits)

\* the result of predict_proba(X, geometry) for the query points
PredictProbaResult(points, hits) ==
    PredictLoop(local_models, files, GlobalClasses(y), points,
                HitGroups(hits, QueryWeights(points, hits)), 1)

\* the neighbour hits the spatial query may return for the query points
PossibleHits(points) ==
    IF params.fixed
    THEN {FixedHits(geometry, points, params.bandwidth)}
    ELSE QueryKnn(geometry, points, params.bandwidth, Len(points))

\* the call returns (or raises) with the outcome res of the loop
Returning(api, points, hits, res) ==
    /\ query' = [api |-> api, points |-> points, hits |-> hits]
    /\ error' = res.err
    /\ proba' = res.rows
    /\ label' = IF api = "predict" /\ res.err = "none"
                THEN [k \in DOMAIN res.rows |-> IdxMax(res.rows[k])]
                ELSE <<>>
    /\ n_lookups' = 1 + res.n

\* the body shared by predict_proba and predict
Predicting(api, points) ==
    /\ pc' = "predicted"
    /\ IF ~has_geometry
       THEN \* self._geometry was never set
            /\ query' = [api |-> api, points |-> points, hits |-> <<>>]
            /\ error' = "AttributeError"
            /\ proba' = <<>>
            /\ label' = <<>>
            /\ n_lookups' = 0
       ELSE \E hits \in PossibleHits(points) :
              Returning(api, points, hits, PredictProbaResult(points, hits))
    /\ UNCHANGED <<dataVars, weights, batch_i, tasks, outputs, training_output,
                   files, warned, n_fitted, attrVars>>

\* predict_proba(X, geometry) after fit has returned
PredictProbaCall ==
    /\ pc = "fitted"
    /\ \E points \in QuerySets : Predicting("predict_proba", points)

\* predict(X, geometry) after fit has returned
PredictCall ==
    /\ pc = "fitted"
    /\ \E points \in QuerySets : Predicting("predict", points)

Next ==
    \/ FitRejectTarget
    \/ FitBuildGraph
    \/ BatchKeyError
    \/ BatchStrictRaise
    \/ BatchDispatch
    \/ RunTask
    \/ JoinBatch
    \/ FitReturn
    \/ PredictProbaCall
    \/ PredictCall

Spec == Init /\ [][Next]_vars

----------------------------------------------------------------------------
(* The same classifier on points one step apart along a line *)

LinePoints == 5

\* points at x = 0, 1, .. identified from 0 or from 1 on
LineGeometries ==
    {[p \in 1..LinePoints |-> [id |-> p - 1 + from, coord |-> p - 1]] : from \in {0, 1}}

\* an alternating 0/1 target, and one target that is not binary
LineTargets ==
    {[p \in 1..LinePoints |-> p % 2],
     [p \in 1..LinePoints |-> IF p = 1 THEN 2 ELSE 0]}

\* a fixed distance of 2 steps
LineParams ==
    {prm \in Params : /\ prm.fixed
                      /\ prm.bandwidth = 2
                      /\ prm.strict # "False"
                      /\ prm.keep_models # "False"
                      /\ prm.batch_size # 1
                      /\ prm.min_proportion = <<1, 5>>}

LineInit ==
    /\ params \in LineParams
    /\ geometry \in LineGeometries
    /\ X = [p \in 1..LinePoints |-> p]
    /\ y \in LineTargets
    /\ pc = "new"
    /\ weights = <<>>
    /\ batch_i = 0
    /\ tasks = <<>>
    /\ outputs = <<>>
    /\ training_output = <<>>
    /\ files = <<>>
    /\ warned = 0
    /\ error = "none"
    /\ n_fitted = 0
    /\ local_models = <<>>
    /\ has_geometry = FALSE
    /\ focal_proba_ = <<>>
    /\ query = <<>>
    /\ proba = <<>>
    /\ label = <<>>
    /\ n_lookups = 0

LineSpec == LineInit /\ [][Next]_vars

----------------------------------------------------------------------------
(* Properties of fit *)

\* fit has returned
Completed == pc \in {"fitted", "predicted"}

\* fit has raised after accepting the target
RaisedInFit == pc = "failed" /\ weights # <<>>

\* the records emitted so far, collected or still in the running batch
Emitted ==
    Range(training_output) \cup {outputs[k] : k \in {j \in DOMAIN outputs : outputs[j] # Pending}}

\* some focal neighbourhood of the training set has a single distinct label
SomeInvariant == Invariant(X, y, geometry, weights) # {}

\* what a single unbatched _batch_fit over the whole adjacency raises
UnbatchedError ==
    IF SomeInvariant /\ params.strict = "True"
    THEN "ValueError: y is invariant." ELSE "none"

\* what a single unbatched _batch_fit over the whole adjacency returns
UnbatchedOutput ==
    LET all == Tasks(X, y, geometry, weights, X)
    IN [k \in DOMAIN all |-> _fit_local(params, GlobalClasses(y), all[k])]

\* C1: a fit run in batches ends as a single unbatched fit over the same
\* adjacency does: it raises the same error or returns the same sequence of
\* records (name, neighbourhood rows, weights and focal feature row).
C1_BatchedEqualsUnbatched ==
    /\ (Batched /\ RaisedInFit) => error = UnbatchedError
    /\ (Batched /\ (pc = "collect" \/ Completed)) =>
          /\ UnbatchedError = "none"
          /\ training_output = UnbatchedOutput

\* C2: with strict=True and an invariant neighbourhood anywhere in the
\* training set, fit never returns, fits no local model, writes no model
\* file and sets no fitted attribute.
C2_StrictAbortsClean ==
    (params.strict = "True" /\ SomeInvariant) =>
        /\ ~Completed
        /\ n_fitted = 0
        /\ DOMAIN files = {}
        /\ local_models = <<>>
        /\ ~has_geometry
        /\ focal_proba_ = <<>>

\* C3: once fit has ended: with an invariant neighbourhood, strict=True has
\* raised, strict=None has warned and returned, strict=False has returned
\* without a warning; without one, fit has returned without a warning.
C3_InvariantPolicy ==
    (RaisedInFit \/ Completed) =>
        IF SomeInvariant
        THEN /\ params.strict = "True" => RaisedInFit
             /\ params.strict = "None" => Completed /\ warned > 0
             /\ params.strict = "False" => Completed /\ warned = 0
        ELSE Completed /\ warned = 0

\* label counts of the neighbourhood a record was emitted for
CountOf(r, c) == Cardinality({k \in DOMAIN r.data : r.data[k].y = c})
LabelsOf(r) == {r.data[k].y : k \in DOMAIN r.data}
Minority(r) == CHOOSE m \in {CountOf(r, c) : c \in LabelsOf(r)} :
                  \A c \in LabelsOf(r) : m <= CountOf(r, c)
Majority(r) == CHOOSE m \in {CountOf(r, c) : c \in LabelsOf(r)} :
                  \A c \in LabelsOf(r) : m >= CountOf(r, c)

\* two labels whose minority/majority ratio equals min_proportion
AtThreshold(r) ==
    /\ Cardinality(LabelsOf(r)) = 2
    /\ Minority(r) * params.min_proportion[2] = params.min_proportion[1] * Majority(r)

\* two labels whose minority/majority ratio is below min_proportion
BelowThreshold(r) ==
    /\ Cardinality(LabelsOf(r)) = 2
    /\ Minority(r) * params.min_proportion[2] < params.min_proportion[1] * Majority(r)

\* C4 as stated: a neighbourhood with two labels whose ratio is exactly
\* min_proportion is skipped.
C4_BoundarySkipped == \A r \in Emitted : AtThreshold(r) => ~r.fitted

\* C4 as amended: a neighbourhood with two labels whose ratio is exactly
\* min_proportion meets the threshold, and its local model is fitted.
C4_BoundaryFitted ==
    \A r \in Emitted : AtThreshold(r) => r.fitted /\ ~r.focal_proba.nan

C4_Witness == \E r \in Emitted : AtThreshold(r) /\ r.fitted

\* the record is the no-fit placeholder
IsPlaceholder(r) ==
    /\ ~r.fitted
    /\ r.focal_proba = NaNRow(GlobalClasses(y))
    /\ params.keep_models # "False" => r.model = [kind |-> "None"]
    /\ ModelPath(r.name) \notin DOMAIN files

\* the record carries the output of a fitted estimator
IsFittedRecord(r) ==
    /\ r.fitted
    /\ ~r.focal_proba.nan
    /\ r.focal_proba.cols = GlobalClasses(y)
    /\ params.keep_models = "True" => r.model.kind = "model"
    /\ params.keep_models = "Path" =>
          r.model.kind = "path" /\ r.model.path \in DOMAIN files

\* C5: a record is the no-fit placeholder exactly when its neighbourhood has
\* a single label or a minority/majority ratio below min_proportion; every
\* other record carries a fitted estimator's probabilities and handle; and
\* the estimators fitted are counted by the records that carry one.
C5_PlaceholderIffIneligible ==
    /\ \A r \in Emitted :
          IF Cardinality(LabelsOf(r)) = 1 \/ BelowThreshold(r)
          THEN IsPlaceholder(r)
          ELSE IsFittedRecord(r)
    /\ n_fitted = Cardinality({r \in Emitted : r.fitted})

C5_Witness ==
    /\ Completed
    /\ \E r \in Emitted : BelowThreshold(r) /\ IsPlaceholder(r)
    /\ \E r \in Emitted : Cardinality(LabelsOf(r)) = 1 /\ IsPlaceholder(r)

\* C6: a target that does not have exactly two distinct values is rejected
\* with the non-binary error before the graph is built or a model fitted.
C6_NonBinaryRejected ==
    (Cardinality(Range(y)) # 2 /\ pc # "new") =>
        /\ pc = "failed"
        /\ error = "ValueError: Only binary dependent variable is supported."
        /\ weights = <<>>
        /\ n_fitted = 0

----------------------------------------------------------------------------
(* Properties of predict_proba and predict *)

\* a prediction call that got past the access to self._geometry
Predicted == pc = "predicted" /\ has_geometry

\* the record fit emitted for the training point at position p
RecordOf(p) ==
    training_output[CHOOSE k \in DOMAIN training_output :
                        training_output[k].name = geometry[p].id]

\* C7: after a fit with keep_models=False a prediction call raises a
\* dedicated error, neither a missing attribute nor a missing key, before
\* any spatial query or model lookup.
C7_PredictUnsupportedError ==
    (pc = "predicted" /\ params.keep_models = "False") =>
        /\ error \notin {"none", "AttributeError", "KeyError"}
        /\ n_lookups = 0

\* the training points returned for query point k all have placeholders
AllPlaceholders(k) ==
    /\ query.hits[k] # {}
    /\ \A p \in query.hits[k] : ~RecordOf(p).fitted

\* C8: a query point whose candidate local models are all placeholders gets
\* an all-missing row from predict_proba and a missing label from predict,
\* and the call does not raise.
C8_AllPlaceholdersMissing ==
    Predicted =>
        \A k \in DOMAIN query.points :
            AllPlaceholders(k) =>
                /\ error = "none"
                /\ proba[k] = NaNRow(GlobalClasses(y))
                /\ query.api = "predict" => label[k] = [nan |-> TRUE]

\* the training points returned for query point k include a fitted model
SomeFitted(k) == \E p \in query.hits[k] : RecordOf(p).fitted

\* the kernel-weighted, renormalised average of the rows that the fitted
\* models of the hits of query point k predict for its features
WeightedAverage(k) ==
    LET order == SortedSeq({p \in query.hits[k] : RecordOf(p).fitted})
        w == QueryWeights(query.points, query.hits)[k]
        rows == [j \in DOMAIN order |->
                    EstimatorPredictProba(
                        LocalModel(geometry[order[j]].id, RecordOf(order[j]).data),
                        query.points[k].x)]
    IN Blend(GlobalClasses(y), rows, [j \in DOMAIN order |-> w[order[j]]]).row

\* C9: a query point with at least one fitted neighbour gets, without an
\* error, the kernel-weighted average of its fitted neighbours' rows,
\* renormalised to sum to 1.
C9_WeightedAverage ==
    Predicted =>
        \A k \in DOMAIN query.points :
            SomeFitted(k) =>
                /\ error = "none"
                /\ proba[k] = WeightedAverage(k)
                /\ SeqSum(proba[k].num) = proba[k].den

\* what local_models holds when the models are kept resident, rebuilt from
\* what each task was given and did
ResidentModels ==
    [k \in DOMAIN training_output |->
        [name |-> training_output[k].name,
         value |-> IF training_output[k].fitted
                   THEN [kind |-> "model",
                         model |-> LocalModel(training_output[k].name,
                                              training_output[k].data)]
                   ELSE [kind |-> "None"]]]

\* the result of the prediction call had the models been kept resident
ResidentResult ==
    PredictLoop(ResidentModels, <<>>, GlobalClasses(y), query.points,
                HitGroups(query.hits, QueryWeights(query.points, query.hits)), 1)

\* C10: whether the models are resident or addressed, every handle of
\* local_models resolves to the model (or placeholder) of the record it was
\* stored for, and a prediction call returns what it returns with resident
\* models, rows and labels alike.
C10_PersistenceTransparent ==
    /\ (Completed /\ params.keep_models # "False") =>
          /\ Len(local_models) = Len(training_output)
          /\ \A k \in DOMAIN local_models :
                /\ local_models[k].name = ResidentModels[k].name
                /\ Resolve(files, local_models[k].value)
                      = [err |-> "none", model |-> ResidentModels[k].value]
    /\ Predicted =>
          /\ error = ResidentResult.err
          /\ proba = ResidentResult.rows
          /\ label = IF query.api = "predict" /\ error = "none"
                     THEN [k \in DOMAIN proba |-> IdxMax(proba[k])]
                     ELSE <<>>

C10_Witness ==
    /\ Predicted
    /\ params.keep_models = "Path"
    /\ query.api = "predict"
    /\ error = "none"
    /\ Cardinality(DOMAIN files) >= 2
    /\ \E k \in DOMAIN local_models : local_models[k].value.kind = "None"
    /\ \E k \in DOMAIN proba : ~proba[k].nan /\ ~label[k].nan

----------------------------------------------------------------------------
(* Properties of the kernel bandwidth and of the neighbourhoods *)

\* the distance between the two training points of an adjacency entry
EntryDistance(e) ==
    Distance(geometry[PosOf(geometry, e.focal)].coord,
             geometry[PosOf(geometry, e.neighbor)].coord)

\* the largest neighbour distance within the focal group called name
GroupMax(name) ==
    LET ds == {EntryDistance(weights[k]) :
                  k \in {j \in DOMAIN weights : weights[j].focal = name}}
    IN CHOOSE m \in ds : \A d \in ds : d <= m

\* the largest distance from query point k to one of its hits
QueryMax(k) ==
    LET ds == {Distance(query.points[k].coord, geometry[p].coord) : p \in query.hits[k]}
    IN CHOOSE m \in ds : \A d \in ds : d <= m

\* C11: in adaptive mode every weight, of the graph built by fit and of the
\* hits of a prediction call alike, is the kernel of the distance with a
\* bandwidth of the group's maximum neighbour distance plus the epsilon, a
\* bandwidth that is strictly positive.
C11_EpsilonGuardedBandwidth ==
    /\ (weights # <<>> /\ ~params.fixed) =>
          \A k \in DOMAIN weights :
             /\ GroupMax(weights[k].focal) + 1 > 0
             /\ weights[k].weight =
                   _kernel_functions(params.kernel, EntryDistance(weights[k]),
                                     GroupMax(weights[k].focal) + 1)
    /\ (Predicted /\ ~params.fixed) =>
          \A k \in DOMAIN query.hits : \A p \in query.hits[k] :
             /\ QueryMax(k) + 1 > 0
             /\ QueryWeights(query.points, query.hits)[k][p] =
                   _kernel_functions(params.kernel,
                                     Distance(query.points[k].coord, geometry[p].coord),
                                     QueryMax(k) + 1)

\* the neighbours of the training point at coordinate c in the graph built
\* by fit, each with its weight
NeighbourhoodAt(c) ==
    {[coord |-> geometry[PosOf(geometry, weights[k].neighbor)].coord,
      weight |-> weights[k].weight] :
        k \in {j \in DOMAIN weights :
                 geometry[PosOf(geometry, weights[j].focal)].coord = c}}

\* fit has built the graph for a fixed bandwidth of 2 and the boxcar kernel
BoxcarLine ==
    /\ weights # <<>>
    /\ params.fixed
    /\ params.bandwidth = 2
    /\ params.kernel = "boxcar"

\* C12 as stated: on the line 0..4 with fixed bandwidth 2 and the boxcar
\* kernel the neighbourhood of the point at 2 is {0, 1, 3, 4}, each with
\* weight 1.
C12_BoxcarNeighboursWithin ==
    (BoxcarLine /\ Len(geometry) = 5) =>
        NeighbourhoodAt(2) = {[coord |-> c, weight |-> <<1, 1>>] : c \in {0, 1, 3, 4}}

\* C12: on the line 0, 1, 2, .. with fixed bandwidth 2 and the boxcar kernel
\* the neighbourhood of the point at 2 is {1, 3}, each with weight 1: the
\* points at distance exactly 2 have weight 0 and are no neighbours.
C12_BoxcarNeighboursInside ==
    BoxcarLine =>
        NeighbourhoodAt(2) = {[coord |-> c, weight |-> <<1, 1>>] : c \in {1, 3}}

C12_Witness ==
    /\ BoxcarLine
    /\ {0, 1, 2, 3, 4} \subseteq {geometry[p].coord : p \in DOMAIN geometry}
    /\ NeighbourhoodAt(2) # {}
    /\ Completed

----------------------------------------------------------------------------
(* Properties of the model files *)

\* the names of the focal groups handled so far, collected ones first, then
\* the tasks of the running batch
HandledNames ==
    [k \in DOMAIN training_output |-> training_output[k].name]
      \o [k \in DOMAIN tasks |-> tasks[k].name]

\* C13: with models kept in a directory, every write of a local fit creates
\* a file that was not there (the files are as many as the fitted models),
\* each file is the model of exactly one fitted record, no focal name is
\* handled by two tasks, in one batch or in two, and tasks are pending only
\* while their own batch is running, all tasks before them being collected.
C13_WriteOnce ==
    /\ \A j, k \in DOMAIN HandledNames : HandledNames[j] = HandledNames[k] => j = k
    /\ (\E k \in DOMAIN outputs : outputs[k] = Pending) =>
          /\ pc = "running"
          /\ Len(training_output) = IF Batched THEN batch_i ELSE 0
    /\ pc = "dispatch" => tasks = <<>> /\ outputs = <<>>
    /\ params.keep_models = "Path" =>
          /\ Cardinality(DOMAIN files) = n_fitted
          /\ \A f \in DOMAIN files :
                Cardinality({r \in Emitted : r.fitted /\ ModelPath(r.name) = f}) = 1
          /\ \A r \in Emitted : r.fitted => ModelPath(r.name) \in DOMAIN files

C13_Witness ==
    /\ params.keep_models = "Path"
    /\ Batched
    /\ batch_i > 0
    /\ pc = "running"
    /\ training_output # <<>>
    /\ Cardinality(DOMAIN files) >= 2
    /\ \E k \in DOMAIN outputs : outputs[k] = Pending

----------------------------------------------------------------------------
(* Properties of the identifiers *)

\* C14: whatever the identifiers and their order, every local fit is given
\* the feature row of the sample its group is named after, and focal_proba_
\* holds under each name the row computed from that record.
C14_FocalRowMatchesName ==
    /\ \A k \in DOMAIN tasks :
          tasks[k].focal_x = X[PosOf(geometry, tasks[k].name)]
    /\ \A r \in Emitted : r.focal_x = X[PosOf(geometry, r.name)]
    /\ Completed =>
          \A k \in DOMAIN focal_proba_ :
             /\ focal_proba_[k].name = training_output[k].name
             /\ focal_proba_[k].value = training_output[k].focal_proba

\* the entries of local_models that the lookup self.local_models[i] selects
Selected(i) == {k \in DOMAIN local_models : local_models[k].name = i}

\* C15: whatever the identifiers, the lookup made for a hit at position p of
\* the training set (the key p - 1) selects the entry of local_models stored
\* for the training point at that position, and so never fails on the key.
C15_PositionResolvesToRecord ==
    Predicted =>
        \A k \in DOMAIN query.hits : \A p \in query.hits[k] :
            /\ Selected(p - 1) # {}
            /\ Selected(p - 1) = Selected(geometry[p].id)
            /\ SeriesGet(local_models, p - 1) =
                  [err |-> "none", value |-> RecordOf(p).model]

====
